---- MODULE Spec2Model ----
(***************************************************************************)
(* The game-state engine of bullshit-history: the operations GameProvider  *)
(* (src/src/context/GameContext.tsx) exports through useGame(), with the   *)
(* pure helpers of utils/gameLogic (src/unnamed/part_001) and the types    *)
(* and default settings of types/game (src/unnamed/part_002).              *)
(*                                                                         *)
(* Indices (currentPlayerIndex, lastCheckedEventIndex) keep the 0-based    *)
(* values of the source; At(s, i) reads a JavaScript array at index i.     *)
(* Fields no operation reads (gameId, isHost, timestamp, the month and day *)
(* of an event, maxPlayers, requireDayPrecision) are left out.             *)
(*                                                                         *)
(* Each operation is an operator from the state it is called in (and its   *)
(* arguments) to what it leaves behind: `state`, the provider's state      *)
(* after the call, and `outcome`, how the call ended ("returned" for a     *)
(* void return, "rejected" for a return after an alert, "success" and      *)
(* "failure" for submitEvent's result, "threw" for an uncaught TypeError). *)
(* The actions apply the operators to the current state.                   *)
(*                                                                         *)
(* Spec lets any operation of the provider be called at any time, SpecUI   *)
(* only as the Lobby and Game screens call them, SpecAsync is SpecUI with  *)
(* startGame suspended on its seed lookup, and SpecBuffer is               *)
(* calculateBuffer asked about one year.  The lookup services              *)
(* (src/src/services) have specifications of their own further down.       *)
(***************************************************************************)
EXTENDS Integers, Sequences, FiniteSets, TLC

VARIABLES
    gameState,      \* useState<GameState | null>: the provider's state
    pendingStart,   \* the startGame call suspended on its seed lookup, if any
    isStarting,     \* Lobby: useState(false), the "Finding starting event" flag
    probeYear,      \* calculateBuffer taken alone: its argument, 0 if none
    probeBuffer,    \* calculateBuffer taken alone: what it returned, 0 if
                    \* it has not been called
    searchResults,  \* Wikidata: what wbsearchentities answers, in rank order,
                    \* each result with the entity wbgetentities holds for it
    timezone,       \* Wikidata: the side of UTC the runtime's clock is on
    fetched,        \* Wikidata: the ids getEntityDetails was called with
    options,        \* Wikidata: what searchHistoricalEventOptions returned
    page,           \* Wikipedia: the page the query API answers with
    details,        \* Wikipedia: what getEventDetails returned
    eventInput,     \* Game: useState(''), the text of the event input
    isSubmitting,   \* Game: useState(false)
    pendingEvents,  \* Game: useState<HistoricalEvent[]>([])
    lookups,        \* Game: the inputs validateEventWithOptions was called
                    \* with, in order
    alerted,        \* Game: what the last alert() said, "" if none was shown
    storage,        \* eventCache: the events of the cache localStorage
                    \* holds, in the order Object.keys lists them
    calls,          \* eventCache, validateEvent: the calls made so far
    written,        \* eventCache: the keys the last cacheEvent or
                    \* cacheEvents call wrote, and whether it was stored
    requests,       \* validateEvent: the requests sent to Wikipedia
    classified      \* validateEvent: its calls, each with what it returned

\* The provider and the screens.
game == <<gameState, pendingStart, isStarting, probeYear, probeBuffer>>

\* The lookup services, which no operation of the provider touches.
wikidata == <<searchResults, timezone, fetched, options>>

wikipedia == <<page, details>>

\* The Game screen's submission form.
form == <<eventInput, isSubmitting, pendingEvents, lookups, alerted>>

\* The result cache and the classifier in front of it.
cache == <<storage, calls, written, requests, classified>>

service == <<wikidata, wikipedia, form, cache>>

vars == <<gameState, pendingStart, isStarting, probeYear, probeBuffer,
          service>>

\* What the operations of the provider leave alone.
others == <<pendingStart, isStarting, probeYear, probeBuffer, service>>

(***************************************************************************)
(* Bound of the model.                                                     *)
(***************************************************************************)
MaxPlayers == 3     \* players a roster can hold

MaxYear == 2100     \* last year calculateBuffer is asked about on its own

\* The event chain needs no bound of its own: submitEvent rejects a title the
\* chain already holds, so it grows no longer than the Catalogue has titles.

(***************************************************************************)
(* JavaScript values.                                                      *)
(***************************************************************************)
Null == [isNull |-> TRUE]

\* A promise that has not settled, a call that has not been made.
Pending == [isPending |-> TRUE]

\* A call that returned value.
Returned(value) == [value |-> value]

At(s, i) == IF i >= 0 /\ i < Len(s) THEN s[i + 1] ELSE Null

\* The object literal {...base, ...over}.
Spread(base, over) ==
    [k \in DOMAIN base \cup DOMAIN over |->
        IF k \in DOMAIN over THEN over[k] ELSE base[k]]

(***************************************************************************)
(* types/game                                                              *)
(***************************************************************************)
GamePhase == {"lobby", "playing", "results"}

\* DEFAULT_BUFFER_RULES with the year 1499 left to no rule.
DEFAULT_BUFFER_RULES_gap ==
    << [fromYear |-> 0,    toYear |-> 999,  bufferYears |-> 50],
       [fromYear |-> 1000, toYear |-> 1498, bufferYears |-> 25],
       [fromYear |-> 1500, toYear |-> 1799, bufferYears |-> 10],
       [fromYear |-> 1800, toYear |-> 1899, bufferYears |-> 5],
       [fromYear |-> 1900, toYear |-> 1949, bufferYears |-> 3],
       [fromYear |-> 1950, toYear |-> 1999, bufferYears |-> 2],
       [fromYear |-> 2000, toYear |-> 9999, bufferYears |-> 1] >>

DEFAULT_BUFFER_RULES ==
    << [fromYear |-> 0,    toYear |-> 999,  bufferYears |-> 50],
       [fromYear |-> 1000, toYear |-> 1499, bufferYears |-> 25],
       [fromYear |-> 1500, toYear |-> 1799, bufferYears |-> 10],
       [fromYear |-> 1800, toYear |-> 1899, bufferYears |-> 5],
       [fromYear |-> 1900, toYear |-> 1949, bufferYears |-> 3],
       [fromYear |-> 1950, toYear |-> 1999, bufferYears |-> 2],
       [fromYear |-> 2000, toYear |-> 9999, bufferYears |-> 1] >>

DEFAULT_SETTINGS ==
    [startingCentury |-> 12, bufferRules |-> DEFAULT_BUFFER_RULES]

(***************************************************************************)
(* Inputs.  The events a lookup can hand back: a title and the year        *)
(* extracted for it.  "BECKET" differs from "Becket" in letter case only.  *)
(***************************************************************************)
Catalogue ==
    { [title |-> "Becket", year |-> 1170],
      [title |-> "BECKET", year |-> 1300],
      [title |-> "Luther", year |-> 1510],
      [title |-> "Worms",  year |-> 1520] }

toLowerCase(title) ==
    CASE title = "Becket" -> "becket"
      [] title = "BECKET" -> "becket"
      [] title = "Luther" -> "luther"
      [] title = "Worms"  -> "worms"

\* The centuries the Lobby's select offers, cut down to two.
Centuries == {12, 16}

PlayerIdPool == <<"p1", "p2", "p3", "p4", "p5">>

PlayerNamePool == <<"Alice", "Bob", "Carol", "Dave", "Erin">>

\* The ids a caller can pass to callBullshit.
CallerIds == {PlayerIdPool[i] : i \in 1..MaxPlayers}

NewPlayer(i) ==
    [id |-> PlayerIdPool[i], name |-> PlayerNamePool[i], isAlive |-> TRUE]

\* Player lists as the Lobby builds them: everybody alive, ids distinct.
Roster(n) == [i \in 1..n |-> NewPlayer(i)]

Rosters == {Roster(n) : n \in 1..MaxPlayers}

(***************************************************************************)
(* utils/gameLogic                                                         *)
(***************************************************************************)
calculateBuffer(year, rules) ==
    LET hits == {i \in 1..Len(rules) :
                    year >= rules[i].fromYear /\ year <= rules[i].toYear}
    IN  IF hits = {} THEN 1
        ELSE rules[CHOOSE i \in hits : \A j \in hits : i <= j].bufferYears

\* isEventWithinBuffer without its chronology check: the distance alone.
isEventWithinBuffer_distanceOnly(anchorEvent, newEvent, bufferYears) ==
    LET yearDifference == newEvent.year - anchorEvent.year
        distance == IF yearDifference < 0 THEN -yearDifference
                    ELSE yearDifference
    IN  [isValid |-> distance <= bufferYears,
         yearDifference |-> yearDifference]

isEventWithinBuffer(anchorEvent, newEvent, bufferYears) ==
    LET yearDifference == newEvent.year - anchorEvent.year
    IN  IF yearDifference < 0
        THEN [isValid |-> FALSE, yearDifference |-> yearDifference]
        ELSE [isValid |-> yearDifference <= bufferYears,
              yearDifference |-> yearDifference]

getAnchorEvent(gs) ==
    IF Len(gs.eventChain) = 0 THEN Null
    ELSE At(gs.eventChain, gs.lastCheckedEventIndex)

processBullshitCall(gs, callingPlayerId) ==
    IF Len(gs.eventChain) = 0
    THEN [success |-> FALSE, eliminatedPlayerId |-> "", wasEventCorrect |-> TRUE]
    ELSE
      LET lastEvent == At(gs.eventChain, Len(gs.eventChain) - 1)
          anchorEvent == getAnchorEvent(gs)
      IN  IF anchorEvent = Null
          THEN [success |-> FALSE, eliminatedPlayerId |-> callingPlayerId,
                wasEventCorrect |-> TRUE]
          ELSE
            LET buffer == calculateBuffer(anchorEvent.event.year,
                                          gs.settings.bufferRules)
                within == isEventWithinBuffer(anchorEvent.event,
                                              lastEvent.event, buffer)
            IN  IF within.isValid
                THEN [success |-> FALSE, eliminatedPlayerId |-> callingPlayerId,
                      wasEventCorrect |-> TRUE]
                ELSE [success |-> TRUE, eliminatedPlayerId |-> lastEvent.playerId,
                      wasEventCorrect |-> FALSE]

alivePlayers(players) == {i \in 1..Len(players) : players[i].isAlive}

isGameOver(gs) == Cardinality(alivePlayers(gs.players)) <= 1

(***************************************************************************)
(* context/GameContext                                                     *)
(***************************************************************************)
\* generatePlayerId: an id no player of the game holds yet.
generatePlayerId(players) ==
    LET used == {players[i].id : i \in 1..Len(players)}
        free == {i \in 1..MaxPlayers : PlayerIdPool[i] \notin used}
    IN  CHOOSE i \in free : \A j \in free : i <= j

\* The scan of getNextPlayerIndex: `attempts` steps taken so far.
RECURSIVE scanNext(_, _, _)
scanNext(players, nextIndex, attempts) ==
    IF ~At(players, nextIndex).isAlive /\ attempts < Len(players)
    THEN scanNext(players, (nextIndex + 1) % Len(players), attempts + 1)
    ELSE nextIndex

\* getNextPlayerIndex without its scan: the next index, alive or not.
getNextPlayerIndex_noSkip(gs) ==
    (gs.currentPlayerIndex + 1) % Len(gs.players)

getNextPlayerIndex(gs) ==
    scanNext(gs.players, (gs.currentPlayerIndex + 1) % Len(gs.players), 0)

\* services/wikipedia fetchStartingEvent: null, or an event the searches
\* found whose year lies in the requested century.
fetchStartingEvent(century) ==
    LET startYear == (century - 1) * 100
        endYear == startYear + 99
    IN  {Null} \cup {e \in Catalogue : e.year >= startYear /\ e.year <= endYear}

\* What startGame can be called with: no argument, or a player list.
StartArgs == {[given |-> FALSE]} \cup
             {[given |-> TRUE, players |-> r] : r \in Rosters}

\* What updateSettings can be called with: a Partial<GameSettings>.
\* The Lobby's select sets startingCentury.
SettingsPatches == {[startingCentury |-> c] : c \in Centuries}

Done(state, outcome) == [state |-> state, outcome |-> outcome]

createGame ==
    Done([phase |-> "lobby",
          players |-> << NewPlayer(1) >>,
          currentPlayerIndex |-> 0,
          eventChain |-> << >>,
          settings |-> DEFAULT_SETTINGS,
          currentBuffer |->
              calculateBuffer((DEFAULT_SETTINGS.startingCentury - 1) * 100,
                              DEFAULT_SETTINGS.bufferRules),
          lastCheckedEventIndex |-> -1],
         "returned")

joinGame(gs) ==
    IF gs = Null THEN Done(gs, "returned")
    ELSE Done(Spread(gs, [players |-> Append(gs.players,
                              NewPlayer(generatePlayerId(gs.players)))]),
              "returned")

setPlayers(gs, players) ==
    IF gs = Null THEN Done(gs, "returned")
    ELSE Done(Spread(gs, [players |-> players]), "returned")

\* startGame without its check of the number of players.
startGame_anyPlayerCount(gs, arg, startingEvent) ==
    IF gs = Null THEN [state |-> gs, outcome |-> "returned"]
    ELSE IF startingEvent = Null THEN [state |-> gs, outcome |-> "rejected"]
    ELSE [state |->
              [k \in DOMAIN gs |->
                  CASE k = "players" ->
                           IF arg.given THEN arg.players ELSE gs.players
                    [] k = "phase" -> "playing"
                    [] k = "eventChain" ->
                           << [playerId |-> "system", playerName |-> "Game",
                               event |-> startingEvent,
                               wasChecked |-> TRUE, wasCorrect |-> TRUE] >>
                    [] k = "lastCheckedEventIndex" -> 0
                    [] k = "currentBuffer" ->
                           calculateBuffer(startingEvent.year,
                                           gs.settings.bufferRules)
                    [] OTHER -> gs[k]],
          outcome |-> "returned"]

\* startGame that keeps the player list it was given when the seed lookup
\* finds nothing.
startGame_keepsPlayers(gs, arg, startingEvent) ==
    IF gs = Null THEN [state |-> gs, outcome |-> "returned"]
    ELSE IF startingEvent = Null /\ arg.given /\ Len(arg.players) >= 2
    THEN [state |-> [k \in DOMAIN gs |->
                        IF k = "players" THEN arg.players ELSE gs[k]],
          outcome |-> "rejected"]
    ELSE startGame_anyPlayerCount(
             gs, arg,
             IF (IF arg.given THEN Len(arg.players) ELSE Len(gs.players)) < 2
             THEN Null ELSE startingEvent)

\* startGame together with the seed lookup it awaits: startingEvent is what
\* fetchStartingEvent resolves to.
startGame(gs, arg, startingEvent) ==
    IF gs = Null THEN Done(gs, "returned")
    ELSE
      LET gamePlayers == IF arg.given THEN arg.players ELSE gs.players
          updatedGameState ==
              IF arg.given THEN Spread(gs, [players |-> arg.players]) ELSE gs
      IN  IF Len(gamePlayers) < 2 THEN Done(gs, "rejected")
          ELSE IF startingEvent = Null THEN Done(gs, "rejected")
          ELSE
            LET initialGameEvent ==
                    [playerId |-> "system", playerName |-> "Game",
                     event |-> startingEvent,
                     wasChecked |-> TRUE, wasCorrect |-> TRUE]
                initialBuffer ==
                    calculateBuffer(startingEvent.year,
                                    updatedGameState.settings.bufferRules)
            IN  Done(Spread(updatedGameState,
                            [phase |-> "playing",
                             eventChain |-> << initialGameEvent >>,
                             lastCheckedEventIndex |-> 0,
                             currentBuffer |-> initialBuffer]),
                     "returned")

\* startGame up to its await: the call returns at once, or it is suspended
\* holding updatedGameState, built from the gameState it was called in.
startGameSuspend(gs, arg) ==
    IF gs = Null THEN [outcome |-> "returned"]
    ELSE IF (IF arg.given THEN Len(arg.players) ELSE Len(gs.players)) < 2
    THEN [outcome |-> "rejected"]
    ELSE [outcome |-> "suspended",
          updatedGameState |->
              IF arg.given THEN Spread(gs, [players |-> arg.players]) ELSE gs]

\* startGame from its await on: `current` is the provider's state when the
\* lookup resolves, updatedGameState the one the suspended call holds.
startGameResume(current, updatedGameState, startingEvent) ==
    IF startingEvent = Null THEN Done(current, "rejected")
    ELSE Done(Spread(updatedGameState,
                     [phase |-> "playing",
                      eventChain |->
                          << [playerId |-> "system", playerName |-> "Game",
                              event |-> startingEvent,
                              wasChecked |-> TRUE, wasCorrect |-> TRUE] >>,
                      lastCheckedEventIndex |-> 0,
                      currentBuffer |->
                          calculateBuffer(
                              startingEvent.year,
                              updatedGameState.settings.bufferRules)]),
              "returned")

\* isDuplicate that also turns a submission down while the last entry is
\* unresolved.
isDuplicate_orUnresolved(gs, validatedEvent) ==
    \/ \E i \in 1..Len(gs.eventChain) :
          toLowerCase(gs.eventChain[i].event.title) =
              toLowerCase(validatedEvent.title)
    \/ /\ Len(gs.eventChain) > 0
       /\ ~gs.eventChain[Len(gs.eventChain)].wasChecked

\* isDuplicate comparing the titles as they are written.
isDuplicate_caseSensitive(gs, validatedEvent) ==
    \E i \in 1..Len(gs.eventChain) :
        gs.eventChain[i].event.title = validatedEvent.title

isDuplicate(gs, validatedEvent) ==
    \E i \in 1..Len(gs.eventChain) :
        toLowerCase(gs.eventChain[i].event.title) =
            toLowerCase(validatedEvent.title)

\* Reading currentPlayer.id throws when players[currentPlayerIndex] is
\* undefined; nothing has been written by then.
submitEvent(gs, validatedEvent) ==
    IF gs = Null THEN Done(gs, "failure")
    ELSE IF isDuplicate(gs, validatedEvent) THEN Done(gs, "failure")
    ELSE IF At(gs.players, gs.currentPlayerIndex) = Null THEN Done(gs, "threw")
    ELSE
      LET currentPlayer == At(gs.players, gs.currentPlayerIndex)
          newGameEvent ==
              [playerId |-> currentPlayer.id,
               playerName |-> currentPlayer.name,
               event |-> validatedEvent, wasChecked |-> FALSE]
          newEventChain == Append(gs.eventChain, newGameEvent)
          newLastCheckedIndex ==
              IF gs.lastCheckedEventIndex = -1 THEN 0
              ELSE gs.lastCheckedEventIndex
          newBuffer ==
              calculateBuffer(validatedEvent.year, gs.settings.bufferRules)
          nextPlayerIndex == getNextPlayerIndex(gs)
      IN  Done(Spread(gs, [eventChain |-> newEventChain,
                           currentPlayerIndex |-> nextPlayerIndex,
                           currentBuffer |-> newBuffer,
                           lastCheckedEventIndex |-> newLastCheckedIndex]),
               "success")

\* callBullshit, "Mark the last event as checked".
markLastChecked(eventChain, wasEventCorrect) ==
    IF Len(eventChain) > 0
    THEN [eventChain EXCEPT
             ![Len(eventChain)] = Spread(@, [wasChecked |-> TRUE,
                                             wasCorrect |-> wasEventCorrect])]
    ELSE eventChain

\* callBullshit, "Eliminate the player".
eliminate(players, eliminatedPlayerId) ==
    [i \in 1..Len(players) |->
        IF players[i].id = eliminatedPlayerId
        THEN Spread(players[i], [isAlive |-> FALSE])
        ELSE players[i]]

\* newLastCheckedIndex that moves the anchor to the challenged entry whatever
\* the ruling.
newLastCheckedIndex_always(wasEventCorrect, n) == n - 1

\* callBullshit, "Update last checked event index": n is the chain's length.
newLastCheckedIndex(wasEventCorrect, n) ==
    IF wasEventCorrect THEN n - 1
    ELSE IF n - 2 > 0 THEN n - 2 ELSE 0

\* With an empty chain newLastCheckedIndex is -1 and reading
\* updatedEventChain[-1].event throws before setGameState is called.
callBullshit(gs, playerId) ==
    IF gs = Null THEN Done(gs, "returned")
    ELSE IF Len(gs.eventChain) = 0 THEN Done(gs, "threw")
    ELSE
      LET result == processBullshitCall(gs, playerId)
          updatedEventChain ==
              markLastChecked(gs.eventChain, result.wasEventCorrect)
          updatedPlayers == eliminate(gs.players, result.eliminatedPlayerId)
          lastCheckedIndex ==
              newLastCheckedIndex(result.wasEventCorrect,
                                  Len(updatedEventChain))
          gameOver == isGameOver(Spread(gs, [players |-> updatedPlayers]))
      IN  Done(Spread(gs,
                 [players |-> updatedPlayers,
                  eventChain |-> updatedEventChain,
                  lastCheckedEventIndex |-> lastCheckedIndex,
                  phase |-> IF gameOver THEN "results" ELSE "playing",
                  currentBuffer |->
                      calculateBuffer(
                          At(updatedEventChain, lastCheckedIndex).event.year,
                          gs.settings.bufferRules)]),
               "returned")

updateSettings(gs, settings) ==
    IF gs = Null THEN Done(gs, "returned")
    ELSE Done(Spread(gs, [settings |-> Spread(gs.settings, settings)]),
              "returned")

resetGame == Done(Null, "returned")

(***************************************************************************)
(* The provider: its state after construction and one action per           *)
(* operation of GameContextType.                                           *)
(***************************************************************************)
\* The lookup services before any of them is used.
WikidataIdle ==
    /\ searchResults = <<>>
    /\ timezone = "utc"
    /\ fetched = <<>>
    /\ options = Pending

WikipediaIdle ==
    /\ page = Null
    /\ details = Pending

FormIdle ==
    /\ eventInput = <<>>
    /\ isSubmitting = FALSE
    /\ pendingEvents = <<>>
    /\ lookups = <<>>
    /\ alerted = ""

CacheIdle ==
    /\ storage = <<>>
    /\ calls = 0
    /\ written = Null
    /\ requests = 0
    /\ classified = <<>>

ServiceIdle ==
    /\ WikidataIdle
    /\ WikipediaIdle
    /\ FormIdle
    /\ CacheIdle

\* No game, no screen in use.
GameIdle ==
    /\ gameState = Null
    /\ pendingStart = Null
    /\ isStarting = FALSE
    /\ probeYear = 0
    /\ probeBuffer = 0

Init ==
    /\ gameState = Null
    /\ pendingStart = Null
    /\ isStarting = FALSE
    /\ probeYear = 0
    /\ probeBuffer = 0
    /\ ServiceIdle

CreateGame ==
    /\ gameState' = createGame.state
    /\ UNCHANGED others

JoinGame ==
    /\ gameState # Null => Len(gameState.players) < MaxPlayers
    /\ gameState' = joinGame(gameState).state
    /\ UNCHANGED others

SetPlayers(players) ==
    /\ gameState' = setPlayers(gameState, players).state
    /\ UNCHANGED others

StartGame(arg) ==
    /\ \E startingEvent \in
            IF gameState = Null THEN {Null}
            ELSE fetchStartingEvent(gameState.settings.startingCentury) :
          gameState' = startGame(gameState, arg, startingEvent).state
    /\ UNCHANGED others

SubmitEvent(event) ==
    /\ gameState' = submitEvent(gameState, event).state
    /\ UNCHANGED others

CallBullshit(playerId) ==
    /\ gameState' = callBullshit(gameState, playerId).state
    /\ UNCHANGED others

UpdateSettings(settings) ==
    /\ gameState' = updateSettings(gameState, settings).state
    /\ UNCHANGED others

ResetGame ==
    /\ gameState' = resetGame.state
    /\ UNCHANGED others

Next ==
    \/ CreateGame
    \/ JoinGame
    \/ \E players \in Rosters : SetPlayers(players)
    \/ \E arg \in StartArgs : StartGame(arg)
    \/ \E event \in Catalogue : SubmitEvent(event)
    \/ \E playerId \in CallerIds : CallBullshit(playerId)
    \/ \E settings \in SettingsPatches : UpdateSettings(settings)
    \/ ResetGame

Spec == Init /\ [][Next]_vars

(***************************************************************************)
(* The same operations as the screens issue them: App shows the Lobby      *)
(* while there is no game or the phase is lobby, the Game screen while it  *)
(* is playing and the Results screen once it is results.  A handler that   *)
(* awaits a lookup before it calls the provider is taken with its lookup.  *)
(***************************************************************************)
\* Game: const isCurrentPlayer = currentPlayer?.isAlive
isCurrentPlayer(gs) ==
    /\ At(gs.players, gs.currentPlayerIndex) # Null
    /\ At(gs.players, gs.currentPlayerIndex).isAlive

\* Game: lastEvent && !lastEvent.wasChecked && eventChain.length > 1
canCallBullshit(gs) ==
    /\ Len(gs.eventChain) > 0
    /\ ~At(gs.eventChain, Len(gs.eventChain) - 1).wasChecked
    /\ Len(gs.eventChain) > 1

\* Game: the players offered in the "Who is calling" dialog.
eligibleBullshitCallers(gs) ==
    IF Len(gs.eventChain) = 0 THEN {}
    ELSE {gs.players[i].id : i \in
            {j \in 1..Len(gs.players) :
                /\ gs.players[j].isAlive
                /\ gs.players[j].id #
                       At(gs.eventChain, Len(gs.eventChain) - 1).playerId}}

\* Lobby, "Create New Game", offered while there is no game.
handleCreateGame ==
    /\ gameState = Null
    /\ CreateGame

\* Lobby, the century select.
handleCenturyChange(settings) ==
    /\ gameState # Null
    /\ gameState.phase = "lobby"
    /\ UpdateSettings(settings)

\* Lobby, "Start Game": the filled player fields, two at least.
handleStartGame(players) ==
    /\ gameState # Null
    /\ gameState.phase = "lobby"
    /\ Len(players) >= 2
    /\ StartGame([given |-> TRUE, players |-> players])

\* Game, the event input and the option the player confirms.
handleConfirmEvent(selectedEvent) ==
    /\ gameState # Null
    /\ gameState.phase = "playing"
    /\ isCurrentPlayer(gameState)
    /\ SubmitEvent(selectedEvent)

\* Game, "Call Bullsh*t!" and the caller picked in the dialog.
handleBullshitConfirm(playerId) ==
    /\ gameState # Null
    /\ gameState.phase = "playing"
    /\ canCallBullshit(gameState)
    /\ playerId \in eligibleBullshitCallers(gameState)
    /\ CallBullshit(playerId)

\* Lobby "Leave Lobby", Game "Exit Game", Results "Play Again".
handleExitGame ==
    /\ gameState # Null
    /\ ResetGame

NextUI ==
    \/ handleCreateGame
    \/ \E settings \in SettingsPatches : handleCenturyChange(settings)
    \/ \E players \in Rosters : handleStartGame(players)
    \/ \E event \in Catalogue : handleConfirmEvent(event)
    \/ \E playerId \in CallerIds : handleBullshitConfirm(playerId)
    \/ handleExitGame

SpecUI == Init /\ [][NextUI]_vars

(***************************************************************************)
(* The screens again, with startGame in its two halves: the Lobby's "Start *)
(* Game" calls it and it suspends on fetchStartingEvent; it resumes when   *)
(* the lookup resolves.  In between the Lobby stays on screen with its     *)
(* button disabled by isStarting, the century select and "Leave Lobby"     *)
(* still enabled.  The Lobby is mounted while there is no game or the      *)
(* phase is lobby, and a Lobby mounted anew has isStarting = false.        *)
(***************************************************************************)
\* Lobby handleStartGame: setIsStarting(true), then startGame(players).
handleStartGameCalls(players) ==
    /\ gameState # Null
    /\ gameState.phase = "lobby"
    /\ ~isStarting
    /\ pendingStart = Null
    /\ Len(players) >= 2
    /\ LET call == startGameSuspend(gameState,
                                    [given |-> TRUE, players |-> players])
       IN  /\ call.outcome = "suspended"
           /\ pendingStart' = [updatedGameState |-> call.updatedGameState]
    /\ isStarting' = TRUE
    /\ UNCHANGED <<gameState, probeYear, probeBuffer, service>>

\* The lookup resolves and startGame runs to its end.
startGameResumes ==
    /\ pendingStart # Null
    /\ \E startingEvent \in
            fetchStartingEvent(
                pendingStart.updatedGameState.settings.startingCentury) :
          gameState' = startGameResume(gameState,
                                       pendingStart.updatedGameState,
                                       startingEvent).state
    /\ pendingStart' = Null
    /\ isStarting' = IF gameState' # Null /\ gameState'.phase # "lobby"
                     THEN FALSE ELSE isStarting
    /\ UNCHANGED <<probeYear, probeBuffer, service>>

NextAsync ==
    \/ handleCreateGame
    \/ \E settings \in SettingsPatches : handleCenturyChange(settings)
    \/ \E players \in Rosters : handleStartGameCalls(players)
    \/ startGameResumes
    \/ \E event \in Catalogue : handleConfirmEvent(event)
    \/ \E playerId \in CallerIds : handleBullshitConfirm(playerId)
    \/ handleExitGame

SpecAsync == Init /\ [][NextAsync]_vars

(***************************************************************************)
(* calculateBuffer taken alone, with the default rules: asked once about   *)
(* a year of the span 1..MaxYear.                                          *)
(***************************************************************************)
InitBuffer ==
    /\ gameState = Null
    /\ pendingStart = Null
    /\ isStarting = FALSE
    /\ probeYear \in 1..MaxYear
    /\ probeBuffer = 0
    /\ ServiceIdle

CalculateBuffer ==
    /\ probeBuffer = 0
    /\ probeBuffer' = calculateBuffer(probeYear, DEFAULT_BUFFER_RULES)
    /\ UNCHANGED <<gameState, pendingStart, isStarting, probeYear, service>>

NextBuffer == CalculateBuffer

SpecBuffer == InitBuffer /\ [][NextBuffer]_vars

(***************************************************************************)
(* services/wikidata (src/src/services/wikipedia.ts from line 681): the    *)
(* lookup that answers a query with up to three events.  A search result   *)
(* carries its id and the entity wbgetentities holds for it, Null when the *)
(* fetch fails.  Of an entity the model keeps what the code reads: the     *)
(* time of its first date claim, the labels of its P31 types and its       *)
(* English label, "" if it has none.  An event of the services has a title *)
(* and a date.                                                             *)
(***************************************************************************)
MaxResults == 4     \* search results a query is answered with

\* "+YYYY-MM-DDT00:00:00Z"; month and day are 00 where the precision of the
\* value is a year.
WikidataTime(y, m, d) == [year |-> y, month |-> m, day |-> d]

isLeapYear(y) == y % 4 = 0 /\ (y % 100 # 0 \/ y % 400 = 0)

\* Days of month m (0-based, as Date counts months) of year y.
daysInMonth(y, m) ==
    CASE m = 1 -> IF isLeapYear(y) THEN 29 ELSE 28
      [] m \in {3, 5, 8, 10} -> 30
      [] OTHER -> 31

\* The local calendar day of a Date that is midnight UTC of y-m-d (m
\* 0-based): the same day on and east of UTC, the day before west of it.
localDay(y, m, d, zone) ==
    IF zone # "west" THEN [year |-> y, month |-> m, day |-> d]
    ELSE IF d > 1 THEN [year |-> y, month |-> m, day |-> d - 1]
    ELSE IF m > 0
         THEN [year |-> y, month |-> m - 1, day |-> daysInMonth(y, m - 1)]
    ELSE [year |-> y - 1, month |-> 11, day |-> 31]

\* new Date(cleaned) is an Invalid Date for month 00 or day 00; the times
\* of the model are calendar days otherwise.
parseWikidataTime(timeString, zone) ==
    IF timeString.month = 0 \/ timeString.day = 0 THEN Null
    ELSE localDay(timeString.year, timeString.month - 1, timeString.day,
                  zone)

\* entity.time is the time of the first of P585, P580, P571 that has a
\* value, Null if none has.
extractDate(claims, zone) ==
    IF claims.time = Null THEN Null
    ELSE parseWikidataTime(claims.time, zone)

\* type.toLowerCase().includes(excluded) for some excluded type.
hasExcludedType(types) == "city" \in types

\* type.toLowerCase().includes(event) for some event type.
hasEventType(types) == "battle" \in types

isValidEvent(types) ==
    IF hasExcludedType(types) THEN FALSE
    ELSE hasEventType(types) \/ types = {}

getEventTypes(claims) == claims.types

entityToHistoricalEvent(entity, zone) ==
    IF entity.claims = Null THEN Null
    ELSE LET dateInfo == extractDate(entity.claims, zone)
         IN  IF dateInfo = Null THEN Null
             ELSE IF ~isValidEvent(getEventTypes(entity.claims)) THEN Null
             ELSE IF entity.label = "" THEN Null
             ELSE [title |-> entity.label,
                   year  |-> dateInfo.year,
                   month |-> dateInfo.month,
                   day   |-> dateInfo.day]

maxOptions == 3

\* The loop of searchHistoricalEventOptions that breaks one event late.
loopBreaks_late(events) == Len(events) > maxOptions

loopBreaks(events) == Len(events) >= maxOptions

getEntityDetails(result) == result.entity

RECURSIVE optionsLoop(_, _, _, _, _)
optionsLoop(results, i, events, fetchedIds, zone) ==
    IF i > Len(results) \/ loopBreaks(events)
    THEN [events |-> events, fetched |-> fetchedIds]
    ELSE LET result == results[i]
             entity == getEntityDetails(result)
             asked  == Append(fetchedIds, result.id)
         IN  IF entity = Null
             THEN optionsLoop(results, i + 1, events, asked, zone)
             ELSE LET event == entityToHistoricalEvent(entity, zone)
                  IN  optionsLoop(results, i + 1,
                                  IF event # Null THEN Append(events, event)
                                  ELSE events,
                                  asked, zone)

searchHistoricalEventOptions(results, zone) ==
    IF Len(results) = 0 THEN [events |-> <<>>, fetched |-> <<>>]
    ELSE optionsLoop(results, 1, <<>>, <<>>, zone)

\* Inputs.  The times entities carry: a day of 1066, the year 1066 alone,
\* the last day of February 2004 but one, and the first day of 2101.
WikidataTimes ==
    { WikidataTime(1066, 10, 14), WikidataTime(1066, 0, 0),
      WikidataTime(2004, 3, 1),   WikidataTime(2101, 1, 1) }

LabelPool ==
    <<"Hastings", "Agincourt", "Lepanto", "Trafalgar", "Waterloo", "Sedan">>

\* What wbgetentities can hold for a search result, its label apart.
EntityKinds ==
    { Null,
      [claims |-> Null, labelled |-> TRUE] }
    \cup { [claims |-> [time |-> t, types |-> {"battle"}],
            labelled |-> TRUE] : t \in WikidataTimes }
    \cup { [claims |-> [time |-> WikidataTime(1066, 10, 14), types |-> ty],
            labelled |-> TRUE] : ty \in {{}, {"city", "battle"}, {"human"}} }
    \cup { [claims |-> [time |-> Null, types |-> {"battle"}],
            labelled |-> TRUE],
           [claims |-> [time |-> WikidataTime(1066, 10, 14),
                        types |-> {"battle"}],
            labelled |-> FALSE] }

\* The entity of kind `kind` behind the result of rank i.
Entity(kind, i) ==
    IF kind = Null THEN Null
    ELSE [claims |-> kind.claims,
          label  |-> IF kind.labelled THEN LabelPool[i] ELSE ""]

InitOptions ==
    /\ GameIdle
    /\ WikipediaIdle
    /\ FormIdle
    /\ CacheIdle
    /\ \E n \in 0..MaxResults :
          \E kinds \in [1..n -> EntityKinds] :
              searchResults = [i \in 1..n |->
                                  [id |-> i, entity |-> Entity(kinds[i], i)]]
    /\ timezone \in {"west", "utc"}
    /\ fetched = <<>>
    /\ options = Pending

SearchHistoricalEventOptions ==
    /\ options = Pending
    /\ LET call == searchHistoricalEventOptions(searchResults, timezone)
       IN  /\ options' = Returned(call.events)
           /\ fetched' = call.fetched
    /\ UNCHANGED <<game, wikipedia, form, cache, searchResults, timezone>>

NextOptions == SearchHistoricalEventOptions

SpecOptions == InitOptions /\ [][NextOptions]_vars

(***************************************************************************)
(* services/wikipedia: getEventDetails on the page the query API answers   *)
(* with.  Of the page's text the model keeps what the regular expressions  *)
(* of the code find in it: whether any of them matches and, for those with *)
(* groups, the numbers the first match captures (a day of one or two       *)
(* digits, a month name as its 0-based number, a year of up to four        *)
(* digits).  `text` is Null for an empty extract.                          *)
(***************************************************************************)
\* The year new Date(year, month, day) takes: 0..99 count from 1900.
dateYear(y) == IF y >= 0 /\ y <= 99 THEN 1900 + y ELSE y

isValidCompleteDate(y, m, d) ==
    IF y < 1 \/ y > 2100 THEN FALSE
    ELSE IF m < 0 \/ m > 11 THEN FALSE
    ELSE IF d < 1 \/ d > 31 THEN FALSE
    ELSE d <= daysInMonth(dateYear(y), m)

isTimePeriodOrMetaPage(title) == title \in {"1990s", "List of wars"}

\* text.lifeDate: the captures of the first of birthPattern1, birthPattern2,
\* deathPattern1, deathPattern2 that matches, with the title prefix of that
\* pattern; Null if none matches.
extractBiographicalDate(text, personName) ==
    IF text = Null THEN Null
    ELSE IF ~text.isBiographical THEN Null
    ELSE IF text.lifeDate # Null
    THEN LET m == text.lifeDate
         IN  IF ~isValidCompleteDate(m.year, m.month, m.day) THEN Null
             ELSE [title |-> m.prefix \o personName,
                   year  |-> m.year,
                   month |-> m.month,
                   day   |-> m.day]
    ELSE Null

\* text.excluded: a time-period, exclude or category pattern matches;
\* text.eventIndicator: an event pattern matches.
isHistoricalEvent(text) ==
    IF text = Null THEN FALSE
    ELSE IF text.excluded THEN FALSE
    ELSE text.eventIndicator

\* text.fullDate: the captures of the first of the eight patterns with a
\* day, a month and a year that matches, `range` telling a range pattern;
\* text.yearRange and text.yearContext: the year the fallback patterns
\* capture.  Null where nothing matches.
extractDateFromText(text) ==
    IF text = Null THEN Null
    ELSE IF text.fullDate # Null
    THEN LET m == text.fullDate
         IN  IF ~isValidCompleteDate(m.year, m.month, m.day) THEN Null
             ELSE [year |-> m.year, month |-> m.month, day |-> m.day,
                   titlePrefix |-> IF m.range THEN "Start of" ELSE ""]
    ELSE IF text.yearRange # Null
            /\ text.yearRange.year >= 1 /\ text.yearRange.year <= 2100
    THEN [year |-> text.yearRange.year, month |-> 0, day |-> 1,
          titlePrefix |-> "Start of"]
    ELSE IF text.yearContext # Null
            /\ text.yearContext.year >= 1 /\ text.yearContext.year <= 2100
    THEN [year |-> text.yearContext.year, month |-> 0, day |-> 1,
          titlePrefix |-> ""]
    ELSE Null

getEventDetails(pageTitle, answer) ==
    IF isTimePeriodOrMetaPage(pageTitle) THEN Null
    ELSE IF answer = Null \/ answer.missing THEN Null
    ELSE LET biographicalInfo ==
                 extractBiographicalDate(answer.extract, answer.title)
         IN  IF biographicalInfo # Null THEN biographicalInfo
             ELSE IF ~isHistoricalEvent(answer.extract) THEN Null
             ELSE LET dateInfo == extractDateFromText(answer.extract)
                  IN  IF dateInfo = Null THEN Null
                      ELSE [title |-> IF dateInfo.titlePrefix # ""
                                      THEN dateInfo.titlePrefix \o " "
                                               \o answer.title
                                      ELSE answer.title,
                            year  |-> dateInfo.year,
                            month |-> dateInfo.month,
                            day   |-> dateInfo.day]

\* Inputs.  Captured dates: a calendar day, the 30th of February, the 29th
\* of February of a year that has none, a day 0 and a year past 2100.
CapturedDates ==
    { [year |-> 1066, month |-> 9, day |-> 14],
      [year |-> 1900, month |-> 1, day |-> 29],
      [year |-> 2004, month |-> 1, day |-> 30],
      [year |-> 1452, month |-> 3, day |-> 0],
      [year |-> 2500, month |-> 0, day |-> 1] }

LifeDates ==
    {Null} \cup
    { [prefix |-> p, year |-> c.year, month |-> c.month, day |-> c.day] :
        p \in {"Birth of ", "Death of "}, c \in CapturedDates }

FullDates ==
    {Null} \cup
    { [year |-> c.year, month |-> c.month, day |-> c.day, range |-> r] :
        c \in CapturedDates, r \in BOOLEAN }

CapturedYears == {Null, [year |-> 1939], [year |-> 0], [year |-> 2500]}

\* The texts of the model.  A text in which a birth or death pattern
\* matches holds a day, a month and a year for the general patterns too,
\* and a text in which a death pattern matches holds "died" or "death".
Texts ==
    {Null} \cup
    { t \in [isBiographical : BOOLEAN, lifeDate : LifeDates,
             excluded : BOOLEAN, eventIndicator : BOOLEAN,
             fullDate : FullDates, yearRange : CapturedYears,
             yearContext : CapturedYears] :
        /\ t.lifeDate # Null => t.fullDate # Null
        /\ (t.lifeDate # Null /\ t.lifeDate.prefix = "Death of ")
              => t.isBiographical }

Pages ==
    { [title |-> ti, missing |-> TRUE, extract |-> Null] :
        ti \in {"Hastings"} } \cup
    { [title |-> ti, missing |-> FALSE, extract |-> t] :
        ti \in {"Hastings", "1990s"}, t \in Texts }

InitDetails ==
    /\ GameIdle
    /\ WikidataIdle
    /\ FormIdle
    /\ CacheIdle
    /\ page \in Pages
    /\ details = Pending

GetEventDetails ==
    /\ details = Pending
    /\ details' = Returned(getEventDetails(page.title, page))
    /\ UNCHANGED <<game, wikidata, form, cache, page>>

NextDetails == GetEventDetails

SpecDetails == InitDetails /\ [][NextDetails]_vars

(***************************************************************************)
(* components/Game: the submission form.  handleSubmitEvent runs up to its *)
(* await, the lookup resolves with the options found, and the player       *)
(* confirms one of them or cancels.  The text of the input is a sequence   *)
(* of characters; the game is one the Lobby has started, with the turn at  *)
(* a player who is alive.                                                  *)
(***************************************************************************)
MaxInput == 4       \* characters the event input holds

MaxLookups == 2     \* lookups one form sends

Chars == {"1", " ", "B", "C", "E", "A", "d", "x"}

isDigit(c) == c = "1"

isSpace(c) == c = " "

\* The letter c in upper case.
toUpperCase(c) == IF c = "d" THEN "D" ELSE c

\* The characters of s after its first n.
Drop(s, n) == SubSeq(s, n + 1, Len(s))

\* The number of characters at the start of s that are all of one kind.
RECURSIVE leadingDigits(_)
leadingDigits(s) ==
    IF s # <<>> /\ isDigit(Head(s)) THEN 1 + leadingDigits(Tail(s)) ELSE 0

RECURSIVE leadingSpaces(_)
leadingSpaces(s) ==
    IF s # <<>> /\ isSpace(Head(s)) THEN 1 + leadingSpaces(Tail(s)) ELSE 0

RECURSIVE trailingSpaces(_)
trailingSpaces(s) ==
    IF s # <<>> /\ isSpace(s[Len(s)])
    THEN 1 + trailingSpaces(SubSeq(s, 1, Len(s) - 1)) ELSE 0

trim(s) ==
    LET front == Drop(s, leadingSpaces(s))
    IN  SubSeq(front, 1, Len(front) - trailingSpaces(front))

EraMarkers == {<<"B", "C">>, <<"A", "D">>, <<"B", "C", "E">>, <<"C", "E">>}

\* /^\d+$/: the pattern without its era group.
yearOnlyPattern_digitsOnly(input) ==
    /\ leadingDigits(input) >= 1
    /\ Drop(input, leadingDigits(input)) = <<>>

\* /^\d+\s*(BC|AD|BCE|CE)?$/i.test(input)
yearOnlyPattern(input) ==
    LET afterDigits == Drop(input, leadingDigits(input))
        afterSpaces == Drop(afterDigits, leadingSpaces(afterDigits))
    IN  /\ leadingDigits(input) >= 1
        /\ \/ afterSpaces = <<>>
           \/ [i \in 1..Len(afterSpaces) |-> toUpperCase(afterSpaces[i])]
                 \in EraMarkers

\* What validateEventWithOptions can resolve with: no event, one event, or
\* two, the first with the title of the seed of PlayingGame.
EventOptions ==
    { <<>>,
      << [title |-> "Luther", year |-> 1510] >>,
      << [title |-> "Becket", year |-> 1170],
         [title |-> "Worms", year |-> 1520] >> }

\* A game of two after startGame.
PlayingGame ==
    startGame(createGame.state, [given |-> TRUE, players |-> Roster(2)],
              [title |-> "Becket", year |-> 1170]).state

RECURSIVE Inputs(_)
Inputs(n) ==
    IF n = 0 THEN {<<>>}
    ELSE Inputs(n - 1) \cup
         {Append(s, c) : s \in {t \in Inputs(n - 1) : Len(t) = n - 1},
                         c \in Chars}

InitSubmit ==
    /\ gameState = PlayingGame
    /\ pendingStart = Null
    /\ isStarting = FALSE
    /\ probeYear = 0
    /\ probeBuffer = 0
    /\ WikidataIdle
    /\ WikipediaIdle
    /\ CacheIdle
    /\ eventInput \in Inputs(MaxInput)
    /\ isSubmitting = FALSE
    /\ pendingEvents = <<>>
    /\ lookups = <<>>
    /\ alerted = ""

\* handleSubmitEvent up to its return or its await.
handleSubmitEvent ==
    /\ gameState # Null
    /\ isCurrentPlayer(gameState)
    /\ ~(trim(eventInput) = <<>> \/ isSubmitting)
    /\ LET input == trim(eventInput)
       IN  IF yearOnlyPattern(input)
           THEN /\ isSubmitting' = FALSE
                /\ alerted' = "Please enter a historical event"
                /\ UNCHANGED lookups
           ELSE /\ Len(lookups) < MaxLookups
                /\ isSubmitting' = TRUE
                /\ lookups' = Append(lookups, input)
                /\ UNCHANGED alerted
    /\ UNCHANGED <<game, wikidata, wikipedia, cache, eventInput,
                   pendingEvents>>

\* The lookup resolves and handleSubmitEvent runs to its end.
validateEventWithOptionsResolves ==
    /\ isSubmitting
    /\ \E eventOptions \in EventOptions :
          IF Len(eventOptions) = 0
          THEN /\ alerted' = "Event not found in Wikipedia"
               /\ UNCHANGED pendingEvents
          ELSE /\ pendingEvents' = eventOptions
               /\ UNCHANGED alerted
    /\ isSubmitting' = FALSE
    /\ UNCHANGED <<game, wikidata, wikipedia, cache, eventInput, lookups>>

\* handleConfirmEvent on an event of the confirmation dialog.
confirmPendingEvent ==
    /\ gameState # Null
    /\ pendingEvents # <<>>
    /\ \E i \in 1..Len(pendingEvents) :
          LET result == submitEvent(gameState, pendingEvents[i])
          IN  /\ gameState' = result.state
              /\ CASE result.outcome = "success" ->
                        /\ isSubmitting' = FALSE
                        /\ eventInput' = <<>>
                        /\ pendingEvents' = <<>>
                        /\ UNCHANGED alerted
                   [] result.outcome = "failure" ->
                        /\ isSubmitting' = FALSE
                        /\ alerted' = "This event has already been submitted"
                        /\ pendingEvents' = <<>>
                        /\ UNCHANGED eventInput
                   [] result.outcome = "threw" ->
                        /\ isSubmitting' = TRUE
                        /\ UNCHANGED <<eventInput, pendingEvents, alerted>>
    /\ UNCHANGED <<pendingStart, isStarting, probeYear, probeBuffer,
                   wikidata, wikipedia, cache, lookups>>

handleCancelEvent ==
    /\ pendingEvents # <<>>
    /\ pendingEvents' = <<>>
    /\ UNCHANGED <<game, wikidata, wikipedia, cache, eventInput,
                   isSubmitting, lookups, alerted>>

NextSubmit ==
    \/ handleSubmitEvent
    \/ validateEventWithOptionsResolves
    \/ confirmPendingEvent
    \/ handleCancelEvent

SpecSubmit == InitSubmit /\ [][NextSubmit]_vars

(***************************************************************************)
(* services/eventCache.  An entry of the cache has its key, the event and  *)
(* cachedAt; `storage` lists the entries as Object.keys lists the keys,    *)
(* which for keys that are no integers is the order they were first        *)
(* written in.  Date.now() is whatever the wall clock shows, and           *)
(* localStorage.setItem may throw for want of room.                        *)
(***************************************************************************)
MAX_CACHE_SIZE == 500

MaxWrites == 2      \* cacheEvent, cacheEvents and clearCache calls
MaxCalls == 3       \* calls altogether, validateEvent included

\* name.toLowerCase().trim().replace(/\s+/g, ' ')
normalizeEventName(name) ==
    CASE name = "Hastings" -> "hastings"
      [] name = " HASTINGS " -> "hastings"
      [] name = "E7" -> "e7"
      [] OTHER -> name

\* The index of key among the entries, 0 if it is not there.
indexOf(entries, key) ==
    IF \E i \in 1..Len(entries) : entries[i].key = key
    THEN CHOOSE i \in 1..Len(entries) : entries[i].key = key
    ELSE 0

\* cache.events[key] = entry
put(entries, entry) ==
    IF indexOf(entries, entry.key) = 0 THEN Append(entries, entry)
    ELSE [entries EXCEPT ![indexOf(entries, entry.key)] = entry]

\* eventKeys left in the order Object.keys lists them.
sortedKeys_unsorted(entries) == entries

\* eventKeys.sort((a, b) => events[a].cachedAt - events[b].cachedAt), a
\* stable sort: the entries of the smallest cachedAt first, in the order
\* they have, then the rest sorted likewise.
RECURSIVE sortedKeys(_)
sortedKeys(entries) ==
    IF entries = <<>> THEN <<>>
    ELSE LET oldest == CHOOSE t \in {entries[i].cachedAt :
                                        i \in 1..Len(entries)} :
                           \A i \in 1..Len(entries) : t <= entries[i].cachedAt
             isOldest(e) == e.cachedAt = oldest
             isLater(e) == e.cachedAt # oldest
         IN  SelectSeq(entries, isOldest)
                 \o sortedKeys(SelectSeq(entries, isLater))

\* saveCache: what localStorage holds after it, `stored` being what it held
\* before and `accepted` whether setItem goes through.
saveCache(stored, entries, accepted) ==
    LET limited ==
            IF Len(entries) > MAX_CACHE_SIZE
            THEN LET toRemove ==
                         SubSeq(sortedKeys(entries), 1,
                                Len(entries) - MAX_CACHE_SIZE)
                     removed == {toRemove[i].key : i \in 1..Len(toRemove)}
                     isKept(e) == e.key \notin removed
                 IN  SelectSeq(entries, isKept)
            ELSE entries
    IN  IF accepted THEN limited ELSE stored

cachedEntry(eventName, event, now) ==
    [key |-> normalizeEventName(eventName), event |-> event,
     cachedAt |-> now]

getCachedEvent(stored, eventName) ==
    LET key == normalizeEventName(eventName)
    IN  IF indexOf(stored, key) = 0 THEN Null
        ELSE stored[indexOf(stored, key)].event

cacheEvent(stored, eventName, event, now, accepted) ==
    saveCache(stored, put(stored, cachedEntry(eventName, event, now)),
              accepted)

\* The forEach of cacheEvents, times[i] being what Date.now() shows for
\* events[i]: an entry whose key the batch names takes the last value the
\* batch has for it and keeps its place, and the keys that are new follow
\* in the order the batch first names them.
putAll(entries, events, times) ==
    LET keyAt(i) == normalizeEventName(events[i].name)
        batchKeys == {keyAt(i) : i \in 1..Len(events)}
        storedKeys == {entries[j].key : j \in 1..Len(entries)}
        last(key) == CHOOSE i \in 1..Len(events) :
                        /\ keyAt(i) = key
                        /\ \A j \in (i + 1)..Len(events) : keyAt(j) # key
        value(key) == cachedEntry(events[last(key)].name,
                                  events[last(key)].event, times[last(key)])
        isFirst(i) == /\ keyAt(i) \notin storedKeys
                      /\ \A j \in 1..(i - 1) : keyAt(j) # keyAt(i)
        firsts == SelectSeq([i \in 1..Len(events) |-> i], isFirst)
    IN  [j \in 1..Len(entries) |->
            IF entries[j].key \in batchKeys THEN value(entries[j].key)
            ELSE entries[j]]
        \o [k \in 1..Len(firsts) |-> value(keyAt(firsts[k]))]

cacheEvents(stored, events, times, accepted) ==
    saveCache(stored, putAll(stored, events, times), accepted)

clearCache == <<>>

(***************************************************************************)
(* services/wikipedia: validateEvent, which answers a query with the       *)
(* first search result getEventDetails makes an event of.  `results` is    *)
(* what the search answers, each result with the page behind its title;    *)
(* the call returns its result and the requests it sent.                   *)
(***************************************************************************)
RECURSIVE validateLoop(_, _, _)
validateLoop(results, i, sent) ==
    IF i > Len(results) THEN [result |-> Null, requests |-> sent]
    ELSE IF isTimePeriodOrMetaPage(results[i].title)
    THEN validateLoop(results, i + 1, sent)
    ELSE LET found == getEventDetails(results[i].title, results[i])
         IN  IF found # Null THEN [result |-> found, requests |-> sent + 1]
             ELSE validateLoop(results, i + 1, sent + 1)

validateEvent(eventName, results) ==
    IF Len(results) = 0 THEN [result |-> Null, requests |-> 1]
    ELSE validateLoop(results, 1, 1)

\* Inputs.
EventNames == {"Hastings", " HASTINGS ", "E7"}

CachedEvents == { [title |-> "Hastings", year |-> 1066, month |-> 9,
                   day |-> 14] }

\* What Date.now() shows: a clock set back behind every entry, the time of
\* the newest entries there are, a later time.
Clock == {50, 200, 300}

\* A cache of n entries written in earlier sessions, every second one
\* written again later.
StoredCache(n) ==
    [i \in 1..n |->
        [key |-> "e" \o ToString(i),
         event |-> [title |-> "Hastings", year |-> 1066, month |-> 9,
                    day |-> 14],
         cachedAt |-> IF i % 2 = 1 THEN 200 ELSE 100]]

\* What cacheEvents is called with: two events, or one more than the cache
\* holds.
ShortBatches ==
    { << [name |-> "Hastings", event |-> e], [name |-> "E7", event |-> e] >> :
        e \in CachedEvents }

LongBatches ==
    { [i \in 1..(MAX_CACHE_SIZE + 1) |->
          [name |-> "b" \o ToString(i), event |-> e]] : e \in CachedEvents }

\* The times of a batch: any for a short one, one tick for a long one.
BatchTimes(events) ==
    IF Len(events) <= 2 THEN [1..Len(events) -> Clock]
    ELSE {[i \in 1..Len(events) |-> now] : now \in Clock}

HastingsPage ==
    [title |-> "Hastings", missing |-> FALSE,
     extract |-> [isBiographical |-> FALSE, lifeDate |-> Null,
                  excluded |-> FALSE, eventIndicator |-> TRUE,
                  fullDate |-> [year |-> 1066, month |-> 9, day |-> 14,
                                range |-> FALSE],
                  yearRange |-> Null, yearContext |-> Null]]

MissingPage == [title |-> "Hastings (film)", missing |-> TRUE,
                extract |-> Null]

DecadePage == [title |-> "1990s", missing |-> FALSE, extract |-> Null]

\* What the search can answer a query with.
SearchAnswers ==
    { <<>>, <<HastingsPage>>, <<MissingPage, HastingsPage>>,
      <<DecadePage, MissingPage>> }

\* The keys and times a write puts into the cache.
Written(entries, accepted) ==
    [entries |-> {[key |-> entries[i].key, cachedAt |-> entries[i].cachedAt] :
                     i \in 1..Len(entries)},
     stored |-> accepted]

CacheEvent(eventName, event, now, accepted) ==
    /\ calls < MaxCalls
    /\ calls < MaxWrites
    /\ storage' = cacheEvent(storage, eventName, event, now, accepted)
    /\ written' = Written(<<cachedEntry(eventName, event, now)>>, accepted)
    /\ calls' = calls + 1
    /\ UNCHANGED <<game, wikidata, wikipedia, form, requests, classified>>

CacheEvents(events, times, accepted) ==
    /\ calls < MaxCalls
    /\ calls < MaxWrites
    /\ storage' = cacheEvents(storage, events, times, accepted)
    /\ written' = Written(putAll(<<>>, events, times), accepted)
    /\ calls' = calls + 1
    /\ UNCHANGED <<game, wikidata, wikipedia, form, requests, classified>>

\* cacheEvents with a batch longer than the cache, as the first write.
CacheLongBatch(events, times, accepted) ==
    /\ written = Null
    /\ calls < MaxCalls
    /\ calls < MaxWrites
    /\ storage' = cacheEvents(storage, events, times, accepted)
    /\ written' = Written(putAll(<<>>, events, times), accepted)
    /\ calls' = calls + 1
    /\ UNCHANGED <<game, wikidata, wikipedia, form, requests, classified>>

ClearCache ==
    /\ calls < MaxCalls
    /\ calls < MaxWrites
    /\ storage # <<>>
    /\ storage' = clearCache
    /\ written' = Null
    /\ calls' = calls + 1
    /\ UNCHANGED <<game, wikidata, wikipedia, form, requests, classified>>

ValidateEvent(eventName, results) ==
    /\ calls < MaxCalls
    /\ LET call == validateEvent(eventName, results)
       IN  /\ classified' = Append(classified,
                                   [eventName |-> eventName,
                                    result |-> call.result])
           /\ requests' = requests + call.requests
    /\ calls' = calls + 1
    /\ UNCHANGED <<game, wikidata, wikipedia, form, storage, written>>

\* The cache on its own, from what earlier sessions left in localStorage.
InitCache ==
    /\ GameIdle
    /\ WikidataIdle
    /\ WikipediaIdle
    /\ FormIdle
    /\ storage \in {StoredCache(0), StoredCache(MAX_CACHE_SIZE - 1),
                    StoredCache(MAX_CACHE_SIZE)}
    /\ calls = 0
    /\ written = Null
    /\ requests = 0
    /\ classified = <<>>

NextCache ==
    \/ \E eventName \in EventNames, event \in CachedEvents, now \in Clock,
          accepted \in BOOLEAN :
          CacheEvent(eventName, event, now, accepted)
    \/ \E events \in ShortBatches, accepted \in BOOLEAN :
          \E times \in BatchTimes(events) :
              CacheEvents(events, times, accepted)
    \/ \E events \in LongBatches, accepted \in BOOLEAN :
          \E times \in BatchTimes(events) :
              CacheLongBatch(events, times, accepted)
    \/ ClearCache

SpecCache == InitCache /\ [][NextCache]_vars

\* The classifier and the cache, from an empty localStorage.
InitClassify ==
    /\ GameIdle
    /\ WikidataIdle
    /\ WikipediaIdle
    /\ FormIdle
    /\ CacheIdle

NextClassify ==
    \/ \E eventName \in EventNames, results \in SearchAnswers :
          ValidateEvent(eventName, results)
    \/ \E eventName \in EventNames, event \in CachedEvents, now \in Clock,
          accepted \in BOOLEAN :
          CacheEvent(eventName, event, now, accepted)
    \/ ClearCache

SpecClassify == InitClassify /\ [][NextClassify]_vars

(***************************************************************************)
(* Properties.  A property of one call quantifies over the arguments the   *)
(* call can be given in the state at hand.                                 *)
(***************************************************************************)
chain == gameState.eventChain

lastEntry == chain[Len(chain)]

anchorEntry == At(chain, gameState.lastCheckedEventIndex)

unresolved(eventChain) ==
    {i \in 1..Len(eventChain) : ~eventChain[i].wasChecked}

\* C1: with a chain that is not empty and an anchor, processBullshitCall rules
\* the last entry correct and names the challenger exactly when
\* 0 <= lastEntry.year - anchor.year <= calculateBuffer(anchor.year, rules);
\* otherwise it rules it incorrect and names the entry's submitter.
C1_ProcessBullshitCall ==
    (gameState # Null /\ Len(chain) > 0 /\ anchorEntry # Null) =>
        \A challenger \in CallerIds :
            LET tolerance == calculateBuffer(anchorEntry.event.year,
                                             gameState.settings.bufferRules)
                diff == lastEntry.event.year - anchorEntry.event.year
                result == processBullshitCall(gameState, challenger)
            IN  IF 0 <= diff /\ diff <= tolerance
                THEN /\ result.wasEventCorrect = TRUE
                     /\ result.eliminatedPlayerId = challenger
                ELSE /\ result.wasEventCorrect = FALSE
                     /\ result.eliminatedPlayerId = lastEntry.playerId

\* A challenge has ruled out an entry dated before its anchor, within the
\* distance the anchor's tolerance allows.
C1_Witness ==
    /\ gameState # Null
    /\ Len(chain) >= 2
    /\ lastEntry.wasChecked
    /\ lastEntry.wasCorrect = FALSE
    /\ \E i \in 1..(Len(chain) - 1) :
          /\ i - 1 = gameState.lastCheckedEventIndex
          /\ lastEntry.event.year < chain[i].event.year
          /\ chain[i].event.year - lastEntry.event.year <=
                 calculateBuffer(chain[i].event.year,
                                 gameState.settings.bufferRules)

\* C2: lastCheckedEventIndex is -1 exactly when the chain is empty, and
\* otherwise indexes an entry with wasChecked = true and wasCorrect = true.
C2_AnchorResolvedAndValid ==
    gameState # Null =>
        /\ (gameState.lastCheckedEventIndex = -1) <=> (Len(chain) = 0)
        /\ Len(chain) > 0 =>
              /\ anchorEntry # Null
              /\ anchorEntry.wasChecked
              /\ anchorEntry.wasCorrect = TRUE

\* C3: while the phase is playing, players[currentPlayerIndex] exists and is
\* alive.
C3_CurrentPlayerAlive ==
    (gameState # Null /\ gameState.phase = "playing") =>
        /\ At(gameState.players, gameState.currentPlayerIndex) # Null
        /\ At(gameState.players, gameState.currentPlayerIndex).isAlive

\* A step within one game instance: neither createGame nor resetGame.
SameGame ==
    /\ gameState # Null
    /\ gameState' # Null
    /\ gameState' # createGame.state

\* C4: within one game the phase stays or moves lobby -> playing or
\* playing -> results, and in no other way.
C4_PhaseMonotonic ==
    [][SameGame =>
         \/ gameState'.phase = gameState.phase
         \/ gameState.phase = "lobby" /\ gameState'.phase = "playing"
         \/ gameState.phase = "playing" /\ gameState'.phase = "results"]_vars

\* C5 as stated: at most one entry is unresolved and it is the last one, and
\* submitEvent is rejected while an unresolved entry exists.
C5_AtMostOneUnresolved ==
    gameState # Null =>
        /\ Cardinality(unresolved(chain)) <= 1
        /\ \A i \in unresolved(chain) : i = Len(chain)
        /\ unresolved(chain) # {} =>
              \A event \in Catalogue :
                  /\ submitEvent(gameState, event).outcome = "failure"
                  /\ submitEvent(gameState, event).state = gameState

\* C5 as amended: unresolved entries are the players' unchallenged
\* submissions and there can be several of them.  While the phase is playing
\* and players[currentPlayerIndex] exists, submitEvent of a title the chain
\* does not hold succeeds whether or not an unresolved entry exists, appends
\* one entry with wasChecked = false and leaves the earlier entries as they
\* were.
C5_UnresolvedAccumulate ==
    gameState # Null =>
        /\ \A i \in unresolved(chain) :
              /\ chain[i].playerId # "system"
              /\ "wasCorrect" \notin DOMAIN chain[i]
        /\ \A event \in Catalogue :
              LET r == submitEvent(gameState, event)
                  held == \E i \in 1..Len(chain) :
                              toLowerCase(chain[i].event.title) =
                                  toLowerCase(event.title)
              IN  (/\ ~held
                   /\ gameState.phase = "playing"
                   /\ At(gameState.players,
                         gameState.currentPlayerIndex) # Null) =>
                      /\ r.outcome = "success"
                      /\ Len(r.state.eventChain) = Len(chain) + 1
                      /\ SubSeq(r.state.eventChain, 1, Len(chain)) = chain
                      /\ unresolved(r.state.eventChain) =
                             unresolved(chain) \cup {Len(chain) + 1}

\* Two submissions in a row were accepted and both are unresolved.
C5_Witness ==
    /\ gameState # Null
    /\ Len(chain) >= 3
    /\ {Len(chain) - 1, Len(chain)} \subseteq unresolved(chain)

\* C6: within one game an entry that has wasChecked = true keeps its
\* wasChecked and wasCorrect values for as long as it is in the chain.
C6_ResolutionWrittenOnce ==
    [][SameGame =>
         \A i \in 1..Len(chain) :
             (/\ chain[i].wasChecked
              /\ i <= Len(gameState'.eventChain)
              /\ gameState'.eventChain[i].event = chain[i].event
              /\ gameState'.eventChain[i].playerId = chain[i].playerId)
             => /\ gameState'.eventChain[i].wasChecked
                /\ gameState'.eventChain[i].wasCorrect = chain[i].wasCorrect]_vars

\* C7: callBullshit on a chain whose last entry is already resolved is
\* rejected: players, eventChain, lastCheckedEventIndex, phase and
\* currentBuffer stay as they are.
C7_ChallengeNeedsUnresolved ==
    (gameState # Null /\ Len(chain) > 0 /\ lastEntry.wasChecked) =>
        \A playerId \in CallerIds :
            LET after == callBullshit(gameState, playerId).state
            IN  /\ after.players = gameState.players
                /\ after.eventChain = gameState.eventChain
                /\ after.lastCheckedEventIndex = gameState.lastCheckedEventIndex
                /\ after.phase = gameState.phase
                /\ after.currentBuffer = gameState.currentBuffer

\* C8: outside the playing phase submitEvent returns success = false and
\* leaves the state as it is.
C8_SubmitOnlyWhilePlaying ==
    (gameState # Null /\ gameState.phase # "playing") =>
        \A event \in Catalogue :
            /\ submitEvent(gameState, event).outcome = "failure"
            /\ submitEvent(gameState, event).state = gameState

\* C9: within one game a player whose isAlive is false is never alive again.
C9_EliminationTerminal ==
    [][SameGame =>
         \A i \in 1..Len(gameState.players) :
             ~gameState.players[i].isAlive =>
                 \A j \in 1..Len(gameState'.players) :
                     gameState'.players[j].id = gameState.players[i].id =>
                         ~gameState'.players[j].isAlive]_vars

\* C10: callBullshit on a chain of length n >= 2 keeps the chain's length and
\* the challenged entry at index n-1, and leaves lastCheckedEventIndex at n-1
\* if it ruled the entry correct and at n-2 if it ruled it incorrect.
C10_AnchorRecomputation ==
    (gameState # Null /\ Len(chain) >= 2) =>
        \A playerId \in CallerIds :
            LET n == Len(chain)
                after == callBullshit(gameState, playerId).state
            IN  /\ Len(after.eventChain) = n
                /\ after.eventChain[n].event = chain[n].event
                /\ after.eventChain[n].playerId = chain[n].playerId
                /\ after.eventChain[n].playerName = chain[n].playerName
                /\ after.eventChain[n].wasChecked
                /\ after.eventChain[n].wasCorrect =>
                       after.lastCheckedEventIndex = n - 1
                /\ ~after.eventChain[n].wasCorrect =>
                       after.lastCheckedEventIndex = n - 2

\* A challenge on a chain of three entries ruled the last one incorrect and
\* left the anchor on the entry before it.
C10_Witness ==
    /\ gameState # Null
    /\ Len(chain) = 3
    /\ lastEntry.wasChecked
    /\ lastEntry.wasCorrect = FALSE
    /\ gameState.lastCheckedEventIndex = 1

\* C11: a completed callBullshit leaves the phase results if at most one
\* player is alive and playing otherwise, and whenever the phase is playing
\* at least two players are alive.
C11_PlayingNeedsTwoAlive ==
    gameState # Null =>
        /\ \A playerId \in CallerIds :
              LET r == callBullshit(gameState, playerId)
                  alive == Cardinality(alivePlayers(r.state.players))
              IN  r.outcome = "returned" =>
                      /\ (r.state.phase = "results") <=> (alive <= 1)
                      /\ (r.state.phase = "playing") <=> (alive > 1)
        /\ gameState.phase = "playing" =>
              Cardinality(alivePlayers(gameState.players)) >= 2

\* C12: whenever the phase is results exactly one player is alive.
C12_ExactlyOneWinner ==
    (gameState # Null /\ gameState.phase = "results") =>
        Cardinality(alivePlayers(gameState.players)) = 1

\* C13: after a successful submitEvent currentPlayerIndex is the first index
\* after the previous one, going round the player list, whose player is
\* alive; it is the previous index itself when no other player is alive.
C13_NextAlivePlayer ==
    gameState # Null =>
        \A event \in Catalogue :
            LET r == submitEvent(gameState, event)
                n == Len(gameState.players)
                c == gameState.currentPlayerIndex
                steps == {k \in 1..n :
                             At(gameState.players, (c + k) % n).isAlive}
            IN  (r.outcome = "success" /\ steps # {}) =>
                    r.state.currentPlayerIndex =
                        (c + (CHOOSE k \in steps : \A j \in steps : k <= j)) % n

\* The last entry is an unchallenged submission of the player at index c,
\* the player after c is eliminated and the turn went to the one after.
C13_Witness ==
    /\ gameState # Null
    /\ Len(chain) > 0
    /\ ~lastEntry.wasChecked
    /\ Len(gameState.players) = 3
    /\ \E c \in 0..2 :
          /\ At(gameState.players, c).id = lastEntry.playerId
          /\ ~At(gameState.players, (c + 1) % 3).isAlive
          /\ At(gameState.players, (c + 2) % 3).isAlive
          /\ gameState.currentPlayerIndex = (c + 2) % 3

\* C14: submitEvent of a title that some chain entry (the seed included)
\* holds, letter case ignored, fails and leaves the state as it is; any
\* other title, in the playing phase with players[currentPlayerIndex]
\* there, appends exactly one entry with wasChecked = false attributed to
\* players[currentPlayerIndex].
C14_DuplicateRejected ==
    gameState # Null =>
        \A event \in Catalogue :
            LET r == submitEvent(gameState, event)
                held == \E i \in 1..Len(chain) :
                            toLowerCase(chain[i].event.title) =
                                toLowerCase(event.title)
                currentPlayer == At(gameState.players,
                                    gameState.currentPlayerIndex)
            IN  /\ held => (r.outcome = "failure" /\ r.state = gameState)
                /\ (/\ ~held
                    /\ gameState.phase = "playing"
                    /\ currentPlayer # Null) =>
                       /\ r.outcome = "success"
                       /\ r.state.eventChain =
                              Append(chain,
                                     [playerId |-> currentPlayer.id,
                                      playerName |-> currentPlayer.name,
                                      event |-> event,
                                      wasChecked |-> FALSE])

\* While playing, after an accepted submission, the chain holds a title
\* and the same title in another letter case is turned down.
C14_Witness ==
    /\ gameState # Null
    /\ gameState.phase = "playing"
    /\ unresolved(chain) # {}
    /\ \E i \in 1..Len(chain) : \E event \in Catalogue :
          /\ event.title # chain[i].event.title
          /\ toLowerCase(event.title) = toLowerCase(chain[i].event.title)
          /\ submitEvent(gameState, event).outcome = "failure"
          /\ submitEvent(gameState, event).state = gameState

\* C15: a startGame that succeeds leaves phase = playing, a chain of exactly
\* the seed (by 'system', wasChecked and wasCorrect true),
\* lastCheckedEventIndex = 0 and currentBuffer = calculateBuffer(seed.year,
\* bufferRules), and it had at least two players to start with.
C15_StartGameSeeds ==
    gameState # Null =>
        \A arg \in StartArgs :
            \A startingEvent \in
                    fetchStartingEvent(gameState.settings.startingCentury) :
                LET r == startGame(gameState, arg, startingEvent)
                    supplied == IF arg.given THEN arg.players
                                ELSE gameState.players
                IN  r.outcome = "returned" =>
                        /\ r.state.phase = "playing"
                        /\ r.state.eventChain =
                               << [playerId |-> "system",
                                   playerName |-> "Game",
                                   event |-> startingEvent,
                                   wasChecked |-> TRUE,
                                   wasCorrect |-> TRUE] >>
                        /\ r.state.lastCheckedEventIndex = 0
                        /\ r.state.currentBuffer =
                               calculateBuffer(startingEvent.year,
                                               gameState.settings.bufferRules)
                        /\ Len(supplied) >= 2

\* A game just started: playing, the seed alone in the chain and anchor.
C15_Witness ==
    /\ gameState # Null
    /\ gameState.phase = "playing"
    /\ Len(chain) = 1
    /\ chain[1].playerId = "system"
    /\ chain[1].wasChecked
    /\ chain[1].wasCorrect = TRUE
    /\ gameState.lastCheckedEventIndex = 0
    /\ gameState.currentBuffer =
           calculateBuffer(chain[1].event.year, gameState.settings.bufferRules)
    /\ Len(gameState.players) >= 2

\* C16: startGame with fewer than two players, startGame whose lookup finds
\* no event and a submitEvent that fails leave every field of the state as
\* it was.
C16_FailureLeavesState ==
    gameState # Null =>
        /\ \A arg \in StartArgs :
              \A startingEvent \in
                      fetchStartingEvent(gameState.settings.startingCentury) :
                  LET r == startGame(gameState, arg, startingEvent)
                      supplied == IF arg.given THEN arg.players
                                  ELSE gameState.players
                  IN  /\ (Len(supplied) < 2 \/ startingEvent = Null) =>
                             (r.outcome = "rejected" /\ r.state = gameState)
                      /\ r.outcome = "rejected" => r.state = gameState
        /\ \A event \in Catalogue :
              submitEvent(gameState, event).outcome = "failure" =>
                  submitEvent(gameState, event).state = gameState

\* In the lobby, with a century the catalogue has an event of: a start with
\* two players given whose lookup finds nothing is turned down, as is a
\* start without players on the host alone.
C16_Witness ==
    /\ gameState # Null
    /\ gameState.phase = "lobby"
    /\ Len(gameState.players) = 1
    /\ fetchStartingEvent(gameState.settings.startingCentury) # {Null}
    /\ startGame(gameState, [given |-> TRUE, players |-> Roster(2)],
                 Null).outcome = "rejected"
    /\ startGame(gameState, [given |-> FALSE],
                 CHOOSE e \in fetchStartingEvent(
                                 gameState.settings.startingCentury) :
                     e # Null).outcome = "rejected"

\* C17: callBullshit on an empty chain returns without an uncaught error
\* and leaves every field of the state, the players' isAlive included, as
\* it was.
C17_EmptyChainNoOp ==
    (gameState # Null /\ Len(chain) = 0) =>
        \A playerId \in CallerIds :
            /\ callBullshit(gameState, playerId).outcome = "returned"
            /\ callBullshit(gameState, playerId).state = gameState

\* C18: when a suspended startGame resumes, what was applied to the game
\* while it waited is still there: a game that was reset stays reset, and
\* the settings and the turn, which startGame does not set, are the ones
\* the provider held just before.
C18_StartGameSerialized ==
    [][(pendingStart # Null /\ pendingStart' = Null) =>
         IF gameState = Null THEN gameState' = Null
         ELSE /\ gameState' # Null
              /\ gameState'.settings = gameState.settings
              /\ gameState'.currentPlayerIndex =
                     gameState.currentPlayerIndex]_vars

\* C19: with the default rules exactly one rule covers the year asked
\* about, so the fallback at the end of calculateBuffer is not reached, and
\* calculateBuffer returns that rule's bufferYears.
C19_DefaultRulesCover ==
    probeYear # 0 =>
        LET hits == {i \in 1..Len(DEFAULT_BUFFER_RULES) :
                        /\ DEFAULT_BUFFER_RULES[i].fromYear <= probeYear
                        /\ probeYear <= DEFAULT_BUFFER_RULES[i].toYear}
        IN  /\ Cardinality(hits) = 1
            /\ probeBuffer # 0 =>
                   \A i \in hits :
                       probeBuffer = DEFAULT_BUFFER_RULES[i].bufferYears

\* calculateBuffer has answered for the last year of a rule's span.
C19_Witness ==
    /\ probeYear = 1499
    /\ probeBuffer = 25

\* C20: a challenge rules the last entry correct exactly when it lies within
\* the time buffer of the entry just before it in the chain, whether or not
\* the entries before it were ever challenged.
C20_JudgedAgainstPrevious ==
    (/\ gameState # Null
     /\ gameState.phase = "playing"
     /\ canCallBullshit(gameState)) =>
        \A playerId \in eligibleBullshitCallers(gameState) :
            LET n == Len(chain)
                previous == chain[n - 1]
                after == callBullshit(gameState, playerId).state
            IN  after.eventChain[n].wasCorrect =
                    isEventWithinBuffer(
                        previous.event, lastEntry.event,
                        calculateBuffer(previous.event.year,
                                        gameState.settings.bufferRules)).isValid

\* C27: while the phase is playing the Game screen offers a way on: the
\* event input, shown when players[currentPlayerIndex] is alive, or the
\* challenge, shown when the last entry is unresolved and the chain has more
\* than one entry.
C27_GameCanProceed ==
    (gameState # Null /\ gameState.phase = "playing") =>
        \/ isCurrentPlayer(gameState)
        \/ /\ canCallBullshit(gameState)
           /\ eligibleBullshitCallers(gameState) # {}

C29_ChainAppendOnly ==
    [][(SameGame /\ gameState.phase # "lobby") =>
         /\ Len(gameState'.eventChain) >= Len(chain)
         /\ \A i \in 1..Len(chain) :
               /\ gameState'.eventChain[i].event = chain[i].event
               /\ gameState'.eventChain[i].playerId = chain[i].playerId
               /\ gameState'.eventChain[i].playerName = chain[i].playerName
               /\ i < Len(chain) => gameState'.eventChain[i] = chain[i]]_vars

\* C30: the tolerance a challenge applies to an entry is the currentBuffer
\* of the state the entry was submitted in.
C30_ToleranceAsShown ==
    (/\ gameState # Null
     /\ gameState.phase = "playing"
     /\ isCurrentPlayer(gameState)) =>
        \A event \in Catalogue :
            LET submitted == submitEvent(gameState, event)
            IN  (/\ submitted.outcome = "success"
                 /\ canCallBullshit(submitted.state)) =>
                    calculateBuffer(
                        getAnchorEvent(submitted.state).event.year,
                        submitted.state.settings.bufferRules) =
                    gameState.currentBuffer

\* The search results that pass every gate of the Wikidata lookup, by rank.
passing ==
    {i \in 1..Len(searchResults) :
        /\ searchResults[i].entity # Null
        /\ entityToHistoricalEvent(searchResults[i].entity, timezone) # Null}

\* C23: every event the classifier returns has a year in 1..2100, a month
\* in 0..11 and a day that exists in that month of that year.
C23_FactsAreCalendarDays ==
    options # Pending =>
        \A k \in 1..Len(options.value) :
            LET event == options.value[k]
            IN  /\ event.year \in 1..2100
                /\ event.month \in 0..11
                /\ event.day \in 1..daysInMonth(event.year, event.month)

\* C24: searchHistoricalEventOptions returns the events of the first three
\* (or fewer) results that pass all gates, in rank order, and fetches no
\* result ranked after the third passing one.
C24_FirstThreePassing ==
    options # Pending =>
        LET kept == {i \in passing :
                        Cardinality({j \in passing : j < i}) < 3}
        IN  /\ Len(options.value) <= 3
            /\ Len(options.value) = Cardinality(kept)
            /\ \A i \in kept :
                  options.value[Cardinality({j \in kept : j < i}) + 1] =
                      entityToHistoricalEvent(searchResults[i].entity,
                                              timezone)
            /\ \A k \in 1..Len(fetched) :
                  Cardinality({j \in passing : j < fetched[k]}) < 3

\* Three events returned from four results that all pass, the fourth left
\* unfetched.
C24_Witness ==
    /\ options # Pending
    /\ Len(options.value) = 3
    /\ passing = 1..4
    /\ fetched = <<1, 2, 3>>

\* C22: getEventDetails returns null for a page whose text signals a person
\* and holds no complete, valid birth or death date.
C22_PersonWithoutDateRejected ==
    (/\ details # Pending
     /\ page.extract # Null
     /\ page.extract.isBiographical
     /\ \/ page.extract.lifeDate = Null
        \/ ~isValidCompleteDate(page.extract.lifeDate.year,
                                page.extract.lifeDate.month,
                                page.extract.lifeDate.day)) =>
        details.value = Null

\* The inputs that are digits alone or digits followed by an era marker,
\* BC, AD, BCE or CE in either letter case, with or without spaces between.
isYearOnly(input) ==
    \E n \in 1..Len(input) : \E g \in 0..(Len(input) - n) :
        /\ \A i \in 1..n : isDigit(input[i])
        /\ \A i \in (n + 1)..(n + g) : input[i] = " "
        /\ LET era == Drop(input, n + g)
           IN  \/ era = <<>>
               \/ \E marker \in EraMarkers :
                     /\ Len(marker) = Len(era)
                     /\ \A i \in 1..Len(era) :
                           toUpperCase(era[i]) = marker[i]

\* C21: while the input is a year alone, handleSubmitEvent sends no lookup,
\* no candidate list is produced and the game state stays as it was.
C21_YearOnlyRejected ==
    isYearOnly(eventInput) =>
        /\ lookups = <<>>
        /\ ~isSubmitting
        /\ pendingEvents = <<>>
        /\ gameState = PlayingGame

\* handleSubmitEvent has rejected a year with an era marker.
C21_Witness ==
    /\ eventInput = <<"1", " ", "B", "C">>
    /\ alerted = "Please enter a historical event"
    /\ lookups = <<>>

\* The keys of the entries.
keysOf(entries) == {entries[i].key : i \in 1..Len(entries)}

\* The key and cachedAt of every entry.
stamps(entries) ==
    {[key |-> entries[i].key, cachedAt |-> entries[i].cachedAt] :
        i \in 1..Len(entries)}

\* The step is a write localStorage accepts.
StoredWrite ==
    /\ calls' = calls + 1
    /\ written' # Null
    /\ written'.stored

\* The cache as the write of the step leaves it before anything is removed.
beforeEviction ==
    LET writtenKeys == {w.key : w \in written'.entries}
    IN  {e \in stamps(storage) : e.key \notin writtenKeys}
            \cup written'.entries

\* A stored write removes nothing while 500 entries are not exceeded, and
\* else leaves 500 entries, none of those removed having a larger cachedAt
\* than one that is kept.
EvictsOldest ==
    LET before == beforeEviction
        after == stamps(storage')
    IN  /\ after \subseteq before
        /\ Cardinality(after) = Len(storage')
        /\ IF Cardinality(before) <= MAX_CACHE_SIZE THEN after = before
           ELSE /\ Cardinality(after) = MAX_CACHE_SIZE
                /\ \A tr \in {e.cachedAt : e \in before \ after} :
                      \A tk \in {e.cachedAt : e \in after} : tr <= tk

\* C26 as claimed: the stored cache holds at most 500 entries, a write that
\* would exceed 500 removes exactly the entries with the smallest cachedAt
\* until 500 remain, and the entries just written are among those kept.
C26_EvictsOldestKeepsWritten ==
    [][/\ Len(storage') <= MAX_CACHE_SIZE
       /\ StoredWrite =>
             /\ EvictsOldest
             /\ written'.entries \subseteq stamps(storage')]_vars

\* C26 as amended: the stored cache holds at most 500 entries, a write that
\* localStorage accepts and that would exceed 500 removes exactly the excess,
\* no removed entry having a larger cachedAt than a kept one, and an entry
\* just written is among those kept whenever at least as many other entries
\* as are removed have a smaller cachedAt than it has.
C26_EvictsOldest ==
    [][/\ Len(storage') <= MAX_CACHE_SIZE
       /\ StoredWrite =>
             /\ EvictsOldest
             /\ \A t \in {w.cachedAt : w \in written'.entries} :
                   LET older == Cardinality({e \in beforeEviction :
                                               e.cachedAt < t})
                       excess == Cardinality(beforeEviction)
                                     - MAX_CACHE_SIZE
                   IN  older >= excess =>
                         {w \in written'.entries : w.cachedAt = t}
                             \subseteq stamps(storage')]_vars

\* A write to a full cache has put out its oldest entry, the second, and
\* kept the entry written.
C26_Witness ==
    /\ written # Null
    /\ written.stored
    /\ Len(storage) = MAX_CACHE_SIZE
    /\ storage[1].key = "e1"
    /\ storage[2].key = "e3"
    /\ storage[MAX_CACHE_SIZE].key = "hastings"

\* C25: classifying a query text whose normalized form was classified with
\* success before, the fact of that time being in the cache, returns that
\* fact again and sends no request.
C25_WarmCacheAnswers ==
    [][\A i \in 1..Len(classified) :
          LET first == classified[i]
              second == classified'[Len(classified')]
          IN  /\ Len(classified') = Len(classified) + 1
              /\ first.result # Null
              /\ getCachedEvent(storage, first.eventName) = first.result
              /\ normalizeEventName(second.eventName)
                     = normalizeEventName(first.eventName)
              => /\ second.result = first.result
                 /\ requests' = requests]_vars

====
